---- MODULE Spec2Model ----
(***************************************************************************)
(* Model of LRUCache<Key, Value> (src/LRUCache.h).                         *)
(*                                                                         *)
(* items_list_ is the std::list of (key, value) pairs, front = most        *)
(* recently used.  Every list node carries its identity `it` (the value of *)
(* a std::list iterator to it), so that items_map_, which maps a key to an *)
(* iterator, can be modelled as it is written in the source.               *)
(*                                                                         *)
(* Spec     : one caller, every public call is one atomic action.          *)
(* SpecWide : as Spec, for a cache of capacity MaxCap + 1.                 *)
(* SpecDemo : the example main() at the end of LRUCache.h.                 *)
(* SpecConc : NumThreads callers; a call is the sequence of its statements *)
(*            (pc = "<op><source line>"), between the construction and the *)
(*            destruction of its std::lock_guard.                          *)
(* SpecFair : SpecConc for a cache of capacity 1, with a fair mutex.       *)
(* SpecZero : SpecConc for a cache of capacity 0, where the eviction calls *)
(*            back() and pop_back() on an empty list: undefined behaviour, *)
(*            modelled as a choice between an abort of the process and a   *)
(*            continuation with an arbitrary pair read.                    *)
(***************************************************************************)
EXTENDS Integers, Sequences, FiniteSets, TLC

\* ------------------------------------------------------------------ bounds
MaxCap    == 2      \* capacities 1..MaxCap are constructed
NumKeys   == 3      \* keys 1..NumKeys
NumValues == 2      \* values 1..NumValues
MaxClock  == 5      \* number of touches (hit get / put) in one run
NumThreads == 2     \* threads calling into one cache (SpecConc)
FairNumKeys   == 2  \* keys 1..FairNumKeys in SpecFair
FairNumValues == 1  \* values 1..FairNumValues in SpecFair

\* LRUCache<int, std::string> cache(3) of the example main()
DemoCapacity == 3

Keys      == 1..NumKeys
Values    == 1..NumValues
Threads   == 1..NumThreads
FairKeys   == 1..FairNumKeys
FairValues == 1..FairNumValues
DemoNodes  == 1..(DemoCapacity + 1)   \* node identities in SpecDemo

VARIABLES
    capacity_,     \* size_t capacity_
    items_list_,   \* std::list<std::pair<Key,Value>>, as a sequence of nodes
    items_map_,    \* std::unordered_map<Key, list::iterator>
    \* -- observation of the last completed call (sequential specification)
    call,          \* [op, key, value, ret] of the last completed call
    pre,           \* the cache and the reference stamps before that call
    \* -- reference model of recency: a logical clock stamped on every touch
    clock,
    stamp,         \* key -> clock value of its last touch (0: never touched)
    touch,         \* key -> kind of its last touch: "none", "get", "put"
    lastPut,       \* key -> value of its most recent put (0: never put)
    evicted,       \* keys evicted since their last put
    refKeys,       \* residents of the reference model (evicts the oldest stamp)
    \* -- threads (concurrent specification)
    mutex_,        \* mutable std::mutex mutex_: 0 = unlocked, else the owner
    pc,            \* thread -> "idle", "lock", "<op><line>", "unlock"
    args,          \* thread -> [op, key, value] of its call in progress
    it,            \* thread -> local `it` (a node identity, or end)
    lru,           \* thread -> local `lru`, the copy of the back pair
    ret,           \* thread -> return value of its call
    \* -- the serial execution in the order in which the lock was taken
    serial,        \* its cache contents, front to back
    serialRet      \* thread -> return value of its call in that execution

cacheVars == <<capacity_, items_list_, items_map_>>
seqVars   == <<call, pre, clock, stamp, touch, lastPut, evicted, refKeys>>
concVars  == <<mutex_, pc, args, it, lru, ret, serial, serialRet>>
vars      == <<cacheVars, seqVars, concVars>>

\* identities of list nodes (iterator values): as many as the largest cache
Nodes == 1..(IF capacity_ > MaxCap THEN capacity_ ELSE MaxCap)

\* ------------------------------------------------------- std::optional<Value>
nullopt      == <<>>
optional(v)  == <<v>>

\* ------------------------------------------------------------ std::list
\* position in the sequence of the node an iterator refers to
deref(list, i) == CHOOSE n \in 1..Len(list) : list[n].it = i

\* faulty variant: the node is relinked to the back of the list
splice_back(list, i) ==
    LET n == deref(list, i)
    IN  SubSeq(list, 1, n - 1) \o SubSeq(list, n + 1, Len(list)) \o <<list[n]>>

\* faulty variant: the node changes places with the front node
splice_swap(list, i) ==
    LET n == deref(list, i)
    IN  [m \in 1..Len(list) |->
            IF m = 1 THEN list[n] ELSE IF m = n THEN list[1] ELSE list[m]]

\* list.splice(list.begin(), list, i): relink node i to the front
splice(list, i) ==
    LET n == deref(list, i)
    IN  <<list[n]>> \o SubSeq(list, 1, n - 1) \o SubSeq(list, n + 1, Len(list))

\* faulty variant: the eviction reads the front node instead of the back node
back_front(list) == list[1]

back(list) == list[Len(list)]

\* faulty variant: the eviction removes two nodes from the back
pop_back_two(list) == SubSeq(list, 1, Len(list) - 2)

pop_back(list) == SubSeq(list, 1, Len(list) - 1)

\* list.emplace_front(key, value); i is the identity of the new node
emplace_front(list, i, key, value) ==
    <<[it |-> i, first |-> key, second |-> value]>> \o list

\* faulty variant: the update leaves the stored value as it was
assign_second_stale(list, i, value) == list

\* faulty variant: the update overwrites the value of every node
assign_second_all(list, i, value) ==
    [n \in 1..Len(list) |-> [list[n] EXCEPT !.second = value]]

\* it->second = value
assign_second(list, i, value) ==
    [n \in 1..Len(list) |->
        IF list[n].it = i THEN [list[n] EXCEPT !.second = value] ELSE list[n]]

\* node identities not in use by the list: what the allocator may hand out
FreeNodes(list) == Nodes \ {list[n].it : n \in 1..Len(list)}

\* faulty variant: the evicted key is left in the index
erase_nothing(map, key) == map

\* ------------------------------------------------------ std::unordered_map
\* items_map_.end()
end == 0

\* map.find(key)
find(map, key) == IF key \in DOMAIN map THEN map[key] ELSE end

erase(map, key) == [k \in DOMAIN map \ {key} |-> map[k]]

\* map[key] = i
assign(map, key, i) == [k \in DOMAIN map \cup {key} |-> IF k = key THEN i ELSE map[k]]

\* faulty variant: a hit returns the value without relinking the node to the front
LRUCache_get_nosplice(list, map, key) ==
    IF key \notin DOMAIN map
    THEN [list |-> list, map |-> map, ret |-> nullopt]
    ELSE [list |-> list, map |-> map,
          ret  |-> optional(list[deref(list, map[key])].second)]

\* faulty variant: a hit returns the value of the front node read before the splice
LRUCache_get_front(list, map, key) ==
    IF key \notin DOMAIN map
    THEN [list |-> list, map |-> map, ret |-> nullopt]
    ELSE [list |-> splice(list, map[key]), map |-> map,
          ret  |-> optional(list[1].second)]

\* faulty variant: a miss rotates the tail node to the front before returning
LRUCache_get_missmoves(list, map, key) ==
    IF key \notin DOMAIN map
    THEN [list |-> IF list = <<>> THEN list ELSE splice(list, back(list).it),
          map |-> map, ret |-> nullopt]
    ELSE LET l1 == splice(list, map[key])
         IN  [list |-> l1, map |-> map,
              ret  |-> optional(l1[deref(l1, map[key])].second)]

\* ------------------------------------------------- the public operations
\* std::optional<Value> get(const Key& key)
LRUCache_get(list, map, key) ==
    IF key \notin DOMAIN map
    THEN [list |-> list, map |-> map, ret |-> nullopt]
    ELSE LET l1 == splice(list, map[key])
         IN  [list |-> l1, map |-> map,
              ret  |-> optional(l1[deref(l1, map[key])].second)]

\* faulty variant: the eviction test is > instead of >=
LRUCache_put_gt(list, map, cap, key, value, i) ==
    IF key \in DOMAIN map
    THEN [list |-> splice(assign_second(list, map[key], value), map[key]),
          map  |-> map]
    ELSE LET full == Len(list) > cap
             tail == back(list)
             m1   == IF full THEN erase(map, tail.first) ELSE map
             l1   == IF full THEN pop_back(list) ELSE list
         IN  [list |-> emplace_front(l1, i, key, value),
              map  |-> assign(m1, key, i)]

\* faulty variant: the update of an existing key does not relink it to the front
LRUCache_put_nosplice(list, map, cap, key, value, i) ==
    IF key \in DOMAIN map
    THEN [list |-> assign_second(list, map[key], value),
          map  |-> map]
    ELSE LET full == Len(list) >= cap
             tail == back(list)
             m1   == IF full THEN erase(map, tail.first) ELSE map
             l1   == IF full THEN pop_back(list) ELSE list
         IN  [list |-> emplace_front(l1, i, key, value),
              map  |-> assign(m1, key, i)]

\* void put(const Key& key, const Value& value); i is the node emplace_front makes
LRUCache_put(list, map, cap, key, value, i) ==
    IF key \in DOMAIN map
    THEN [list |-> splice(assign_second(list, map[key], value), map[key]),
          map  |-> map]
    ELSE LET full == Len(list) >= cap
             tail == back(list)
             m1   == IF full THEN erase(map, tail.first) ELSE map
             l1   == IF full THEN pop_back(list) ELSE list
         IN  [list |-> emplace_front(l1, i, key, value),
              map  |-> assign(m1, key, i)]

\* the nodes emplace_front may make in put: free once the eviction has run
put_nodes(list, map, cap, key) ==
    IF key \in DOMAIN map THEN {0}
    ELSE IF Len(list) >= cap THEN FreeNodes(pop_back(list))
    ELSE FreeNodes(list)

\* faulty variant: exists marks the key as used, as get does
LRUCache_exists_touch(list, map, key) ==
    [list |-> IF key \in DOMAIN map THEN splice(list, map[key]) ELSE list,
     map |-> map, ret |-> key \in DOMAIN map]

\* bool exists(const Key& key) const
LRUCache_exists(list, map, key) ==
    [list |-> list, map |-> map, ret |-> key \in DOMAIN map]

\* faulty variant: size() counts one entry too many
LRUCache_size_plus(list, map) ==
    [list |-> list, map |-> map, ret |-> Len(list) + 1]

\* size_t size() const
LRUCache_size(list, map) ==
    [list |-> list, map |-> map, ret |-> Len(list)]

\* ---------------------------------------------------------------- views
NoArgs == [op |-> "none", key |-> 0, value |-> 0]

\* the return value of a call of a thread: optional<Value>, bool or size_t
NoRet          == [opt |-> nullopt, bool |-> FALSE, size |-> 0]
RetOptional(o) == [NoRet EXCEPT !.opt = o]
RetBool(b)     == [NoRet EXCEPT !.bool = b]
RetSize(n)     == [NoRet EXCEPT !.size = n]
NoPair == [first |-> 0, second |-> 0]

ListKeys(list) == {list[n].first : n \in 1..Len(list)}
KeySeq(list)   == [n \in 1..Len(list) |-> list[n].first]
Resident       == DOMAIN items_map_
ValueOf(list, key) == list[CHOOSE n \in 1..Len(list) : list[n].first = key].second

Snapshot == [list |-> items_list_, map |-> items_map_,
             stamp |-> stamp, touch |-> touch, lastPut |-> lastPut]

\* ------------------------------------------------------ reference model
\* the key of S with the oldest stamp
Oldest(S, st) == CHOOSE e \in S : \A j \in S : st[e] <= st[j]

\* residents of the reference model after put(key, _)
RefPut(S, st, cap, key) ==
    IF key \in S THEN S
    ELSE IF Cardinality(S) >= cap THEN (S \ {Oldest(S, st)}) \cup {key}
    ELSE S \cup {key}

\* the keys of S, most recent stamp first
RECURSIVE SortByStamp(_, _)
SortByStamp(S, st) ==
    IF S = {} THEN <<>>
    ELSE LET m == CHOOSE k \in S : \A j \in S : st[j] <= st[k]
         IN  <<m>> \o SortByStamp(S \ {m}, st)

\* ------------------------------------------------------------------ Init
\* explicit LRUCache(size_t capacity) : capacity_(capacity) {}
LRUCache(capacity) ==
    /\ capacity_ = capacity
    /\ items_list_ = <<>>
    /\ items_map_ = <<>>
    /\ call = [op |-> "new", key |-> 0, value |-> 0, ret |-> 0]
    /\ pre = [list |-> <<>>, map |-> <<>>,
              stamp |-> [k \in Keys |-> 0], touch |-> [k \in Keys |-> "none"],
              lastPut |-> [k \in Keys |-> 0]]
    /\ clock = 0
    /\ stamp = [k \in Keys |-> 0]
    /\ touch = [k \in Keys |-> "none"]
    /\ lastPut = [k \in Keys |-> 0]
    /\ evicted = {}
    /\ refKeys = {}
    /\ mutex_ = 0
    /\ args = [t \in Threads |-> NoArgs]
    /\ it = [t \in Threads |-> end]
    /\ lru = [t \in Threads |-> NoPair]
    /\ ret = [t \in Threads |-> NoRet]
    /\ serial = <<>>
    /\ serialRet = [t \in Threads |-> NoRet]

Init ==
    /\ \E capacity \in 1..MaxCap : LRUCache(capacity)
    /\ pc = [t \in Threads |-> "idle"]

\* --------------------------------------------------------------- actions
Get(key) ==
    LET r   == LRUCache_get(items_list_, items_map_, key)
        hit == key \in DOMAIN items_map_
    IN  /\ hit => clock < MaxClock
        /\ items_list_' = r.list
        /\ items_map_' = r.map
        /\ call' = [op |-> "get", key |-> key, value |-> 0, ret |-> r.ret]
        /\ pre' = Snapshot
        /\ clock' = IF hit THEN clock + 1 ELSE clock
        /\ stamp' = IF hit THEN [stamp EXCEPT ![key] = clock + 1] ELSE stamp
        /\ touch' = IF hit THEN [touch EXCEPT ![key] = "get"] ELSE touch
        /\ UNCHANGED <<capacity_, lastPut, evicted, refKeys, concVars>>

Put(key, value) ==
    /\ clock < MaxClock
    /\ \E i \in put_nodes(items_list_, items_map_, capacity_, key) :
         LET r == LRUCache_put(items_list_, items_map_, capacity_, key, value, i)
         IN  /\ items_list_' = r.list
             /\ items_map_' = r.map
             /\ evicted' = (evicted \cup (ListKeys(items_list_) \ ListKeys(r.list)))
                              \ {key}
    /\ call' = [op |-> "put", key |-> key, value |-> value, ret |-> 0]
    /\ pre' = Snapshot
    /\ clock' = clock + 1
    /\ stamp' = [stamp EXCEPT ![key] = clock + 1]
    /\ touch' = [touch EXCEPT ![key] = "put"]
    /\ lastPut' = [lastPut EXCEPT ![key] = value]
    /\ refKeys' = RefPut(refKeys, stamp, capacity_, key)
    /\ UNCHANGED <<capacity_, concVars>>

Exists(key) ==
    LET r == LRUCache_exists(items_list_, items_map_, key)
    IN  /\ items_list_' = r.list
        /\ items_map_' = r.map
        /\ call' = [op |-> "exists", key |-> key, value |-> 0, ret |-> r.ret]
        /\ pre' = Snapshot
        /\ UNCHANGED <<capacity_, clock, stamp, touch, lastPut, evicted, refKeys, concVars>>

Size ==
    LET r == LRUCache_size(items_list_, items_map_)
    IN  /\ items_list_' = r.list
        /\ items_map_' = r.map
        /\ call' = [op |-> "size", key |-> 0, value |-> 0, ret |-> r.ret]
        /\ pre' = Snapshot
        /\ UNCHANGED <<capacity_, clock, stamp, touch, lastPut, evicted, refKeys, concVars>>

Next ==
    \/ \E key \in Keys : Get(key)
    \/ \E key \in Keys, value \in Values : Put(key, value)
    \/ \E key \in Keys : Exists(key)
    \/ Size

Spec == Init /\ [][Next]_vars

\* one caller of a cache that holds one entry more than those of Spec
InitWide ==
    /\ LRUCache(MaxCap + 1)
    /\ pc = [t \in Threads |-> "idle"]

SpecWide == InitWide /\ [][Next]_vars

\* ------------------------------------------------- the example main()
\* main() (thread 1) is at statement `line`; the others do not call
AtMain(line) == pc[1] = line

mainUnchanged ==
    UNCHANGED <<capacity_, clock, stamp, touch, lastPut, evicted, refKeys,
                mutex_, args, it, lru, ret, serial, serialRet>>

\* cache.put(key, value); the allocator hands out any node not in the list
MainPut(line, key, value, next) ==
    /\ AtMain(line)
    /\ LET kept == IF key \notin DOMAIN items_map_ /\ Len(items_list_) >= capacity_
                   THEN pop_back(items_list_) ELSE items_list_
       IN  \E i \in DemoNodes \ {kept[n].it : n \in 1..Len(kept)} :
              LET r == LRUCache_put(items_list_, items_map_, capacity_, key, value, i)
              IN  /\ items_list_' = r.list
                  /\ items_map_' = r.map
    /\ call' = [op |-> "put", key |-> key, value |-> value, ret |-> 0]
    /\ pre' = Snapshot
    /\ pc' = [pc EXCEPT ![1] = next]
    /\ mainUnchanged

\* cache.get(key)
MainGet(line, key, next) ==
    /\ AtMain(line)
    /\ LET r == LRUCache_get(items_list_, items_map_, key)
       IN  /\ items_list_' = r.list
           /\ items_map_' = r.map
           /\ call' = [op |-> "get", key |-> key, value |-> 0, ret |-> r.ret]
    /\ pre' = Snapshot
    /\ pc' = [pc EXCEPT ![1] = next]
    /\ mainUnchanged

\* cache.exists(key)
MainExists(line, key, next) ==
    /\ AtMain(line)
    /\ LET r == LRUCache_exists(items_list_, items_map_, key)
       IN  /\ items_list_' = r.list
           /\ items_map_' = r.map
           /\ call' = [op |-> "exists", key |-> key, value |-> 0, ret |-> r.ret]
    /\ pre' = Snapshot
    /\ pc' = [pc EXCEPT ![1] = next]
    /\ mainUnchanged

main117 == MainPut("main117", 1, "one", "main118")
main118 == MainPut("main118", 2, "two", "main119")
main119 == MainPut("main119", 3, "three", "main121")
main121 == MainGet("main121", 2, "main122")
main122 == MainPut("main122", 4, "four", "main123")
main123 == MainExists("main123", 1, "main124")
main124 == MainExists("main124", 3, "main125")

\* LRUCache<int, std::string> cache(3);
InitDemo ==
    /\ LRUCache(DemoCapacity)
    /\ pc = [t \in Threads |-> IF t = 1 THEN "main117" ELSE "idle"]

NextDemo ==
    \/ main117 \/ main118 \/ main119 \/ main121
    \/ main122 \/ main123 \/ main124

SpecDemo == InitDemo /\ [][NextDemo]_vars

\* ------------------------------------------------ the serial execution
\* the contents of a list, front to back, without the node identities
Abs(list) ==
    [n \in 1..Len(list) |-> [first |-> list[n].first, second |-> list[n].second]]

\* a list with these contents, and its index
CanonList(kv) ==
    [n \in 1..Len(kv) |-> [it |-> n, first |-> kv[n].first, second |-> kv[n].second]]
CanonMap(kv) ==
    [k \in {kv[n].first : n \in 1..Len(kv)} |->
        CHOOSE n \in 1..Len(kv) : kv[n].first = k]

\* one whole call applied to the contents kv: the new contents and the result
SerialCall(kv, cap, a) ==
    LET l == CanonList(kv)
        m == CanonMap(kv)
    IN  CASE a.op = "get" ->
               LET r == LRUCache_get(l, m, a.key)
               IN  [kv |-> Abs(r.list), ret |-> RetOptional(r.ret)]
          [] a.op = "put" ->
               LET r == LRUCache_put(l, m, cap, a.key, a.value, Len(kv) + 1)
               IN  [kv |-> Abs(r.list), ret |-> NoRet]
          [] a.op = "exists" ->
               LET r == LRUCache_exists(l, m, a.key)
               IN  [kv |-> Abs(r.list), ret |-> RetBool(r.ret)]
          [] a.op = "size" ->
               LET r == LRUCache_size(l, m)
               IN  [kv |-> Abs(r.list), ret |-> RetSize(r.ret)]

\* ------------------------------------------------------ threads: calls
\* a thread calls a public operation and arrives at its lock_guard
Invoke(t, op, key, value) ==
    /\ pc[t] = "idle"
    /\ pc' = [pc EXCEPT ![t] = "lock"]
    /\ args' = [args EXCEPT ![t] = [op |-> op, key |-> key, value |-> value]]
    /\ UNCHANGED <<cacheVars, seqVars, mutex_, it, lru, ret, serial, serialRet>>

CallGet(t, key)        == Invoke(t, "get", key, 0)
CallPut(t, key, value) == Invoke(t, "put", key, value)
CallExists(t, key)     == Invoke(t, "exists", key, 0)
CallSize(t)            == Invoke(t, "size", 0, 0)

\* faulty variant: the lock is taken whether or not another thread owns it
lockable_always(m) == TRUE

\* std::mutex::lock returns only when no thread owns the mutex
lockable(m) == m = 0

\* first statement after the lock_guard of each operation
Body(op) ==
    CASE op = "get" -> "get41"
      [] op = "put" -> "put59"
      [] op = "exists" -> "exists84"
      [] op = "size" -> "size92"

\* faulty variant: the operation runs its body without the lock_guard
Lock_missing(t) ==
    /\ pc[t] = "lock"
    /\ mutex_' = t
    /\ pc' = [pc EXCEPT ![t] = Body(args[t].op)]
    /\ LET r == SerialCall(serial, capacity_, args[t])
       IN  /\ serial' = r.kv
           /\ serialRet' = [serialRet EXCEPT ![t] = r.ret]
    /\ UNCHANGED <<cacheVars, seqVars, args, it, lru, ret>>

\* std::lock_guard<std::mutex> lock(mutex_);
Lock(t) ==
    /\ pc[t] = "lock"
    /\ lockable(mutex_)
    /\ mutex_' = t
    /\ pc' = [pc EXCEPT ![t] = Body(args[t].op)]
    /\ LET r == SerialCall(serial, capacity_, args[t])
       IN  /\ serial' = r.kv
           /\ serialRet' = [serialRet EXCEPT ![t] = r.ret]
    /\ UNCHANGED <<cacheVars, seqVars, args, it, lru, ret>>

\* faulty variant: the lock_guard of a returning call does not release the mutex
Unlock_leak(t) ==
    /\ pc[t] = "unlock"
    /\ mutex_' = mutex_
    /\ pc' = [pc EXCEPT ![t] = "idle"]
    /\ args' = [args EXCEPT ![t] = NoArgs]
    /\ it' = [it EXCEPT ![t] = end]
    /\ lru' = [lru EXCEPT ![t] = NoPair]
    /\ ret' = [ret EXCEPT ![t] = NoRet]
    /\ serialRet' = [serialRet EXCEPT ![t] = NoRet]
    /\ UNCHANGED <<cacheVars, seqVars, serial>>

\* ~lock_guard on return: the call is over
Unlock(t) ==
    /\ pc[t] = "unlock"
    /\ mutex_' = 0
    /\ pc' = [pc EXCEPT ![t] = "idle"]
    /\ args' = [args EXCEPT ![t] = NoArgs]
    /\ it' = [it EXCEPT ![t] = end]
    /\ lru' = [lru EXCEPT ![t] = NoPair]
    /\ ret' = [ret EXCEPT ![t] = NoRet]
    /\ serialRet' = [serialRet EXCEPT ![t] = NoRet]
    /\ UNCHANGED <<cacheVars, seqVars, serial>>

\* an iterator that refers to a node of the list
valid(list, i) == \E n \in 1..Len(list) : list[n].it = i

goto(t, label) == pc' = [pc EXCEPT ![t] = label]

\* -------------------------------------------------------- threads: get
\* auto it = items_map_.find(key);
get41(t) ==
    /\ pc[t] = "get41"
    /\ it' = [it EXCEPT ![t] = find(items_map_, args[t].key)]
    /\ goto(t, "get42")
    /\ UNCHANGED <<cacheVars, seqVars, mutex_, args, lru, ret, serial, serialRet>>

\* if (it == items_map_.end()) return std::nullopt;
get42(t) ==
    /\ pc[t] = "get42"
    /\ IF it[t] = end
       THEN /\ ret' = [ret EXCEPT ![t] = RetOptional(nullopt)]
            /\ goto(t, "unlock")
       ELSE /\ ret' = ret
            /\ goto(t, "get46")
    /\ UNCHANGED <<cacheVars, seqVars, mutex_, args, it, lru, serial, serialRet>>

\* items_list_.splice(items_list_.begin(), items_list_, it->second);
get46(t) ==
    /\ pc[t] = "get46"
    /\ valid(items_list_, it[t])
    /\ items_list_' = splice(items_list_, it[t])
    /\ goto(t, "get47")
    /\ UNCHANGED <<capacity_, items_map_, seqVars, mutex_, args, it, lru, ret,
                   serial, serialRet>>

\* return it->second->second;
get47(t) ==
    /\ pc[t] = "get47"
    /\ valid(items_list_, it[t])
    /\ ret' = [ret EXCEPT ![t] =
          RetOptional(optional(items_list_[deref(items_list_, it[t])].second))]
    /\ goto(t, "unlock")
    /\ UNCHANGED <<cacheVars, seqVars, mutex_, args, it, lru, serial, serialRet>>

\* -------------------------------------------------------- threads: put
\* auto it = items_map_.find(key);
put59(t) ==
    /\ pc[t] = "put59"
    /\ it' = [it EXCEPT ![t] = find(items_map_, args[t].key)]
    /\ goto(t, "put60")
    /\ UNCHANGED <<cacheVars, seqVars, mutex_, args, lru, ret, serial, serialRet>>

\* if (it != items_map_.end())
put60(t) ==
    /\ pc[t] = "put60"
    /\ goto(t, IF it[t] # end THEN "put62" ELSE "put67")
    /\ UNCHANGED <<cacheVars, seqVars, mutex_, args, it, lru, ret, serial, serialRet>>

\* it->second->second = value;
put62(t) ==
    /\ pc[t] = "put62"
    /\ valid(items_list_, it[t])
    /\ items_list_' = assign_second(items_list_, it[t], args[t].value)
    /\ goto(t, "put63")
    /\ UNCHANGED <<capacity_, items_map_, seqVars, mutex_, args, it, lru, ret,
                   serial, serialRet>>

\* items_list_.splice(items_list_.begin(), items_list_, it->second); return;
put63(t) ==
    /\ pc[t] = "put63"
    /\ valid(items_list_, it[t])
    /\ items_list_' = splice(items_list_, it[t])
    /\ goto(t, "unlock")
    /\ UNCHANGED <<capacity_, items_map_, seqVars, mutex_, args, it, lru, ret,
                   serial, serialRet>>

\* faulty variant: the eviction starts one entry early
put67_early(t) ==
    /\ pc[t] = "put67"
    /\ goto(t, IF Len(items_list_) >= capacity_ - 1 THEN "put68" ELSE "put73")
    /\ UNCHANGED <<cacheVars, seqVars, mutex_, args, it, lru, ret, serial, serialRet>>

\* faulty variant: the eviction test is > instead of >=
put67_gt(t) ==
    /\ pc[t] = "put67"
    /\ goto(t, IF Len(items_list_) > capacity_ THEN "put68" ELSE "put73")
    /\ UNCHANGED <<cacheVars, seqVars, mutex_, args, it, lru, ret, serial, serialRet>>

\* if (items_list_.size() >= capacity_)
put67(t) ==
    /\ pc[t] = "put67"
    /\ goto(t, IF Len(items_list_) >= capacity_ THEN "put68" ELSE "put73")
    /\ UNCHANGED <<cacheVars, seqVars, mutex_, args, it, lru, ret, serial, serialRet>>

\* auto lru = items_list_.back();
put68(t) ==
    /\ pc[t] = "put68"
    /\ items_list_ # <<>>
    /\ lru' = [lru EXCEPT ![t] = [first  |-> back(items_list_).first,
                                  second |-> back(items_list_).second]]
    /\ goto(t, "put69")
    /\ UNCHANGED <<cacheVars, seqVars, mutex_, args, it, ret, serial, serialRet>>

\* items_map_.erase(lru.first);
put69(t) ==
    /\ pc[t] = "put69"
    /\ items_map_' = erase(items_map_, lru[t].first)
    /\ goto(t, "put70")
    /\ UNCHANGED <<capacity_, items_list_, seqVars, mutex_, args, it, lru, ret,
                   serial, serialRet>>

\* items_list_.pop_back();
put70(t) ==
    /\ pc[t] = "put70"
    /\ items_list_ # <<>>
    /\ items_list_' = pop_back(items_list_)
    /\ goto(t, "put73")
    /\ UNCHANGED <<capacity_, items_map_, seqVars, mutex_, args, it, lru, ret,
                   serial, serialRet>>

\* items_list_.emplace_front(key, value);
put73(t) ==
    /\ pc[t] = "put73"
    /\ \E i \in FreeNodes(items_list_) :
          items_list_' = emplace_front(items_list_, i, args[t].key, args[t].value)
    /\ goto(t, "put74")
    /\ UNCHANGED <<capacity_, items_map_, seqVars, mutex_, args, it, lru, ret,
                   serial, serialRet>>

\* items_map_[key] = items_list_.begin();
put74(t) ==
    /\ pc[t] = "put74"
    /\ items_list_ # <<>>
    /\ items_map_' = assign(items_map_, args[t].key, items_list_[1].it)
    /\ goto(t, "unlock")
    /\ UNCHANGED <<capacity_, items_list_, seqVars, mutex_, args, it, lru, ret,
                   serial, serialRet>>

\* ----------------------------------------------- threads: exists, size
\* return items_map_.find(key) != items_map_.end();
exists84(t) ==
    /\ pc[t] = "exists84"
    /\ ret' = [ret EXCEPT ![t] = RetBool(find(items_map_, args[t].key) # end)]
    /\ goto(t, "unlock")
    /\ UNCHANGED <<cacheVars, seqVars, mutex_, args, it, lru, serial, serialRet>>

\* return items_list_.size();
size92(t) ==
    /\ pc[t] = "size92"
    /\ ret' = [ret EXCEPT ![t] = RetSize(Len(items_list_))]
    /\ goto(t, "unlock")
    /\ UNCHANGED <<cacheVars, seqVars, mutex_, args, it, lru, serial, serialRet>>

\* a thread between the construction and the destruction of its lock_guard
InBody(t) == pc[t] \notin {"idle", "lock"}

\* index and list agree and hold no more than capacity_ entries
Consistent ==
    /\ Len(items_list_) <= capacity_
    /\ DOMAIN items_map_ = ListKeys(items_list_)
    /\ Cardinality(DOMAIN items_map_) = Len(items_list_)
    /\ \A k \in DOMAIN items_map_ :
          \E n \in 1..Len(items_list_) :
             items_list_[n].it = items_map_[k] /\ items_list_[n].first = k

\* the statements of the bodies
BodyStep(t) ==
    \/ get41(t) \/ get42(t) \/ get46(t) \/ get47(t)
    \/ put59(t) \/ put60(t) \/ put62(t) \/ put63(t) \/ put67(t)
    \/ put68(t) \/ put69(t) \/ put70(t) \/ put73(t) \/ put74(t)
    \/ exists84(t) \/ size92(t)

\* a thread inside a call whose next statement can run: a waiting thread
\* needs the mutex to be free, a statement needs the objects it uses
Runnable(t) ==
    CASE pc[t] = "idle" -> FALSE
      [] pc[t] = "lock" -> lockable(mutex_)
      [] pc[t] \in {"get46", "get47", "put62", "put63"} -> valid(items_list_, it[t])
      [] pc[t] \in {"put68", "put70", "put74"} -> items_list_ # <<>>
      [] pc[t] = "put73" -> FreeNodes(items_list_) # {}
      [] OTHER -> TRUE

NextConc ==
    \E t \in Threads :
       \/ \E key \in Keys : CallGet(t, key)
       \/ \E key \in Keys, value \in Values : CallPut(t, key, value)
       \/ \E key \in Keys : CallExists(t, key)
       \/ CallSize(t)
       \/ Lock(t)
       \/ get41(t) \/ get42(t) \/ get46(t) \/ get47(t)
       \/ put59(t) \/ put60(t) \/ put62(t) \/ put63(t) \/ put67(t)
       \/ put68(t) \/ put69(t) \/ put70(t) \/ put73(t) \/ put74(t)
       \/ exists84(t) \/ size92(t)
       \/ Unlock(t)

SpecConc == Init /\ [][NextConc]_vars

\* the threads keep running (weak fairness of the statements of a call that
\* holds the mutex) and the mutex is fair: a thread that can take it again
\* and again does take it (strong fairness of the lock_guard construction)
Fairness ==
    \A t \in Threads :
       /\ WF_vars(BodyStep(t) \/ Unlock(t))
       /\ SF_vars(Lock(t))

\* the callers of the fairness specification draw their arguments from
\* FairKeys and FairValues
NextFair ==
    \E t \in Threads :
       \/ \E key \in FairKeys : CallGet(t, key)
       \/ \E key \in FairKeys, value \in FairValues : CallPut(t, key, value)
       \/ \E key \in FairKeys : CallExists(t, key)
       \/ CallSize(t)
       \/ Lock(t)
       \/ BodyStep(t)
       \/ Unlock(t)

\* a cache of the smallest valid capacity: with two keys every put of the
\* other key evicts
InitFair == Init /\ capacity_ = 1

SpecFair == InitFair /\ [][NextFair]_vars /\ Fairness

\* ------------------------------------------------------- capacity 0
\* explicit LRUCache(size_t capacity) with capacity = 0: nothing is validated
InitZero ==
    /\ LRUCache(0)
    /\ pc = [t \in Threads |-> "idle"]

\* std::lock_guard<std::mutex> lock(mutex_); no serial execution is kept for
\* a program with undefined behaviour
LockZero(t) ==
    /\ pc[t] = "lock"
    /\ lockable(mutex_)
    /\ mutex_' = t
    /\ pc' = [pc EXCEPT ![t] = Body(args[t].op)]
    /\ UNCHANGED <<cacheVars, seqVars, args, it, lru, ret, serial, serialRet>>

\* the process is terminated
abort ==
    /\ pc' = [t \in Threads |-> "abort"]
    /\ UNCHANGED <<cacheVars, seqVars, mutex_, args, it, lru, ret, serial, serialRet>>

\* auto lru = items_list_.back(); on an empty list: undefined behaviour
put68_empty(t) ==
    /\ pc[t] = "put68"
    /\ items_list_ = <<>>
    /\ \/ abort
       \/ /\ \E key \in Keys, value \in Values :
                lru' = [lru EXCEPT ![t] = [first |-> key, second |-> value]]
          /\ goto(t, "put69")
          /\ UNCHANGED <<cacheVars, seqVars, mutex_, args, it, ret, serial, serialRet>>

\* items_list_.pop_back(); on an empty list: undefined behaviour
put70_empty(t) ==
    /\ pc[t] = "put70"
    /\ items_list_ = <<>>
    /\ \/ abort
       \/ /\ goto(t, "put73")
          /\ UNCHANGED <<cacheVars, seqVars, mutex_, args, it, lru, ret,
                         serial, serialRet>>

NextZero ==
    \E t \in Threads :
       \/ \E key \in Keys : CallGet(t, key)
       \/ \E key \in Keys, value \in Values : CallPut(t, key, value)
       \/ \E key \in Keys : CallExists(t, key)
       \/ CallSize(t)
       \/ LockZero(t)
       \/ BodyStep(t)
       \/ put68_empty(t) \/ put70_empty(t)
       \/ Unlock(t)

SpecZero == InitZero /\ [][NextZero]_vars

\* every statement that uses an iterator or the back node finds it there
NoDangling ==
    \A t \in Threads :
       /\ pc[t] \in {"get46", "get47", "put62", "put63"} => valid(items_list_, it[t])
       /\ pc[t] \in {"put68", "put70", "put74"} => items_list_ # <<>>
       /\ pc[t] = "put73" => FreeNodes(items_list_) # {}

\* --------------------------------------------------------------- claims

\* C1 (capacity bound): after every completed call the number of resident
\* entries - the length of the ordering list, which equals the number of
\* index entries - is at most the capacity.
CapacityBound ==
    /\ Len(items_list_) = Cardinality(DOMAIN items_map_)
    /\ Len(items_list_) <= capacity_

CapacityBoundWitness ==
    /\ call.op = "put"
    /\ call.key \notin DOMAIN pre.map
    /\ Len(pre.list) = capacity_
    /\ Len(items_list_) = capacity_
    /\ capacity_ = MaxCap

\* C2 (eviction correctness): when put(k, v) is called with k not resident
\* and the cache holds exactly capacity entries, exactly one key is removed,
\* it is the resident key whose most recent touch is the oldest, every other
\* resident key stays resident, and k becomes resident.
EvictionCorrectness ==
    (/\ call.op = "put"
     /\ call.key \notin DOMAIN pre.map
     /\ Len(pre.list) = capacity_)
    => \E e \in DOMAIN pre.map :
          /\ \A j \in DOMAIN pre.map \ {e} : pre.stamp[e] < pre.stamp[j]
          /\ DOMAIN pre.map \ Resident = {e}
          /\ Resident = (DOMAIN pre.map \ {e}) \cup {call.key}
          /\ ListKeys(items_list_) = Resident

EvictionCorrectnessWitness ==
    /\ call.op = "put"
    /\ call.key \notin DOMAIN pre.map
    /\ Len(pre.list) = capacity_
    /\ capacity_ >= 2
    /\ pre.list[1].first \in Resident
    /\ pre.touch[pre.list[1].first] = "get"

\* C3 (recency update on get): after get(k) hits, k is at the head of the
\* ordering list; and when an overflowing put evicts a key whose last touch
\* was a hit get, every other key resident at that put was touched after
\* that get.
RecencyUpdateOnGet ==
    /\ (call.op = "get" /\ call.key \in DOMAIN pre.map)
          => (Len(items_list_) >= 1 /\ items_list_[1].first = call.key)
    /\ (call.op = "put" /\ call.key \notin DOMAIN pre.map)
          => \A e \in DOMAIN pre.map \ Resident :
                pre.touch[e] = "get"
                  => \A j \in DOMAIN pre.map \ {e} : pre.stamp[j] > pre.stamp[e]

\* an overflowing put evicted a key whose last touch was a hit get, after
\* the other resident had been touched again
RecencyUpdateOnGetWitness ==
    /\ call.op = "put"
    /\ call.key \notin DOMAIN pre.map
    /\ capacity_ >= 2
    /\ \E e \in DOMAIN pre.map \ Resident :
          /\ pre.touch[e] = "get"
          /\ \E j \in DOMAIN pre.map \ {e} : pre.stamp[j] > pre.stamp[e]

\* C4 (update semantics): put(k, v2) on a resident key k stores v2 for k,
\* leaves the size and the set of resident keys unchanged (no eviction, even
\* when the cache is full), and moves k to the head of the ordering list.
UpdateSemantics ==
    (call.op = "put" /\ call.key \in DOMAIN pre.map)
    => /\ call.key \in ListKeys(items_list_)
       /\ ValueOf(items_list_, call.key) = call.value
       /\ Len(items_list_) = Len(pre.list)
       /\ Resident = DOMAIN pre.map
       /\ ListKeys(items_list_) = ListKeys(pre.list)
       /\ items_list_[1].first = call.key

UpdateSemanticsWitness ==
    /\ call.op = "put"
    /\ call.key \in DOMAIN pre.map
    /\ Len(pre.list) = capacity_
    /\ capacity_ >= 2
    /\ pre.list[1].first # call.key
    /\ ValueOf(pre.list, call.key) # call.value
    /\ ValueOf(items_list_, call.key) = call.value

\* C5 (get returns the current value): get(k) on a resident key returns the
\* value of the most recent put(k, v), and returns absent exactly when k is
\* not resident; k is not resident exactly when it was never put or was
\* evicted since its last put.
GetReturnsCurrentValue ==
    /\ call.op = "get"
         => call.ret = IF call.key \in DOMAIN pre.map
                       THEN optional(pre.lastPut[call.key])
                       ELSE nullopt
    /\ \A k \in Keys : k \notin Resident <=> (lastPut[k] = 0 \/ k \in evicted)
    /\ \A k \in Resident : lastPut[k] \in Values

\* a hit get on a key other than the head, whose value differs from the head's
GetReturnsCurrentValueWitness ==
    /\ call.op = "get"
    /\ call.key \in DOMAIN pre.map
    /\ Len(pre.list) >= 2
    /\ pre.list[1].first # call.key
    /\ pre.list[1].second # pre.lastPut[call.key]
    /\ call.ret = optional(pre.lastPut[call.key])
    /\ evicted # {}

\* C6 (miss behaviour): get(k) for a key that is not resident returns an
\* absent result and leaves the whole cache state unchanged.
MissBehaviour ==
    (call.op = "get" /\ call.key \notin DOMAIN pre.map)
    => /\ call.ret = nullopt
       /\ items_list_ = pre.list
       /\ items_map_ = pre.map

MissBehaviourWitness ==
    /\ call.op = "get"
    /\ call.key \notin DOMAIN pre.map
    /\ call.ret = nullopt
    /\ Len(pre.list) >= 2
    /\ call.key \in evicted

\* C7 (exists is non-mutating): exists(k) returns true iff k is resident and
\* leaves the ordering list, the index and the values unchanged, so the state
\* every later call starts from is the one it would start from without the
\* exists call.
ExistsNonMutating ==
    call.op = "exists"
    => /\ call.ret = (call.key \in DOMAIN pre.map)
       /\ items_list_ = pre.list
       /\ items_map_ = pre.map

\* exists(k) on a resident key that is not the head, in a full cache
ExistsNonMutatingWitness ==
    /\ call.op = "exists"
    /\ call.ret = TRUE
    /\ Len(pre.list) >= 2
    /\ Len(pre.list) = capacity_
    /\ back(pre.list).first = call.key

\* C8 (index/sequence agreement): after every completed call the keys of the
\* index are the keys of the ordering list, the list holds no key twice, and
\* the index entry of key k refers to the list node that holds key k.
IndexSequenceAgreement ==
    /\ DOMAIN items_map_ = ListKeys(items_list_)
    /\ \A n, m \in 1..Len(items_list_) :
          items_list_[n].first = items_list_[m].first => n = m
    /\ \A n, m \in 1..Len(items_list_) :
          items_list_[n].it = items_list_[m].it => n = m
    /\ \A k \in DOMAIN items_map_ :
          \E n \in 1..Len(items_list_) :
             items_list_[n].it = items_map_[k] /\ items_list_[n].first = k

\* an evicting put has completed and a key evicted earlier is resident again
IndexSequenceAgreementWitness ==
    /\ call.op = "put"
    /\ call.key \notin DOMAIN pre.map
    /\ Len(pre.list) = capacity_
    /\ Len(items_list_) >= 2
    /\ evicted # {}
    /\ pre.lastPut[call.key] # 0

\* C9 (recency order): after every completed call the ordering list, read
\* head to tail, lists the resident keys in strictly decreasing order of the
\* time of their last touch (hit get or put); it is the list of the
\* reference model's residents sorted by stamp.
RecencyOrder ==
    /\ \A n, m \in 1..Len(items_list_) :
          n < m => stamp[items_list_[n].first] > stamp[items_list_[m].first]
    /\ KeySeq(items_list_) = SortByStamp(refKeys, stamp)

\* the order after a hit get differs from the order puts alone gave
RecencyOrderWitness ==
    /\ call.op = "get"
    /\ call.key \in DOMAIN pre.map
    /\ Len(items_list_) >= 2
    /\ KeySeq(items_list_) # KeySeq(pre.list)
    /\ evicted # {}

\* C10 (linearizability): for threads issuing any interleaving of
\* get/put/exists/size on one cache, the result of every call and the cache
\* state whenever no call is inside its body equal those of the serial
\* execution of the same calls in the order in which they took the lock; each
\* call takes the lock between its invocation and its return, so that order
\* respects the real-time order of calls that do not overlap.
Linearizable ==
    /\ mutex_ = 0 =>
          /\ Abs(items_list_) = serial
          /\ DOMAIN items_map_ = {serial[n].first : n \in 1..Len(serial)}
          /\ \A k \in DOMAIN items_map_ :
                valid(items_list_, items_map_[k])
                /\ items_list_[deref(items_list_, items_map_[k])].first = k
    /\ \A t \in Threads : pc[t] = "unlock" => ret[t] = serialRet[t]

\* a get that hit is returning while another thread's put waits for the lock
\* and a third key has been evicted before
LinearizableWitness ==
    \E t, u \in Threads :
       /\ t # u
       /\ pc[t] = "unlock"
       /\ args[t].op = "get"
       /\ ret[t].opt # nullopt
       /\ pc[u] = "lock"
       /\ args[u].op = "put"
       /\ args[u].key \notin DOMAIN items_map_
       /\ Len(items_list_) = capacity_
       /\ capacity_ >= 2

\* C11 (no intermediate state is observable): at most one thread is inside
\* the body of a public operation, and it owns the mutex; whenever index and
\* list disagree, the one thread inside a body is a put, so no get, exists or
\* size of another thread reads the state between the steps of a put; every
\* call starts its body in a consistent state, and size() never returns more
\* than the capacity.
NoIntermediateObserved ==
    /\ \A t, u \in Threads : (InBody(t) /\ InBody(u)) => t = u
    /\ \A t \in Threads : InBody(t) => mutex_ = t
    /\ ~Consistent =>
          \E t \in Threads :
             /\ InBody(t)
             /\ args[t].op = "put"
             /\ \A u \in Threads \ {t} : ~InBody(u)
    /\ \A t \in Threads :
          pc[t] \in {"get41", "put59", "exists84", "size92"} => Consistent
    /\ \A t \in Threads :
          (pc[t] = "unlock" /\ args[t].op = "size") => ret[t].size <= capacity_

\* a put has erased the evicted key from the index and not yet popped the
\* list, while a size() call of another thread waits for the mutex
NoIntermediateObservedWitness ==
    \E t, u \in Threads :
       /\ t # u
       /\ pc[t] = "put70"
       /\ ~Consistent
       /\ pc[u] = "lock"
       /\ args[u].op = "size"

\* C12 (lock release and deadlock freedom): the mutex is owned exactly while
\* its owner is inside a body, so every exit path has released it and the
\* lock is free whenever no call is in progress; a thread waiting for the
\* lock never owns it; and in no reachable state are all threads blocked.
LockReleased ==
    /\ mutex_ # 0 => (mutex_ \in Threads /\ InBody(mutex_))
    /\ (\A t \in Threads : ~InBody(t)) => mutex_ = 0
    /\ \A t \in Threads : pc[t] = "lock" => mutex_ # t
    /\ (\E t \in Threads : pc[t] # "idle") =>
          \E t \in Threads : Runnable(t)

\* a missed get is on its early return, about to release the mutex that
\* another thread's put is waiting for
LockReleasedWitness ==
    \E t, u \in Threads :
       /\ t # u
       /\ pc[t] = "unlock"
       /\ args[t].op = "get"
       /\ ret[t].opt = nullopt
       /\ mutex_ = t
       /\ pc[u] = "lock"
       /\ args[u].op = "put"
       /\ args[u].key \in DOMAIN items_map_

\* C13 (no starvation): under a fair lock every get/put/exists/size call
\* started by any thread eventually completes, whatever the other threads do.
NoStarvation ==
    \A t \in Threads : (pc[t] # "idle") ~> (pc[t] = "idle")

\* a call waits for the mutex while another thread's put is evicting
NoStarvationWitness ==
    \E t, u \in Threads :
       /\ t # u
       /\ pc[t] = "lock"
       /\ mutex_ = u
       /\ pc[u] = "put69"
       /\ args[t].op = "get"
       /\ args[t].key = lru[u].first

\* C14 (demonstration scenario): with capacity 3, after put(1), put(2),
\* put(3) the order, most recent first, is [3,2,1]; get(2) returns the value
\* put for 2 and the order becomes [2,3,1]; put(4) evicts key 1 and the order
\* becomes [4,2,3]; then exists(1) is false and exists(3) is true.
DemoScenario ==
    /\ AtMain("main121") => KeySeq(items_list_) = <<3, 2, 1>>
    /\ AtMain("main122") =>
          /\ call.ret = optional("two")
          /\ KeySeq(items_list_) = <<2, 3, 1>>
    /\ AtMain("main123") =>
          /\ DOMAIN pre.map \ Resident = {1}
          /\ KeySeq(items_list_) = <<4, 2, 3>>
    /\ AtMain("main124") => (call.key = 1 /\ call.ret = FALSE)
    /\ AtMain("main125") => (call.key = 3 /\ call.ret = TRUE)

\* main() has run to its return statement
DemoScenarioWitness ==
    /\ AtMain("main125")
    /\ capacity_ = DemoCapacity
    /\ call.op = "exists"
    /\ KeySeq(items_list_) = <<4, 2, 3>>
    /\ Abs(items_list_)[1].second = "four"

\* C15 (size): size() returns the current number of resident entries, a value
\* in 0..capacity equal to the number of index entries, and leaves the cache
\* state unchanged; a newly constructed cache has size 0.
SizeIsResidentCount ==
    /\ call.op = "size" =>
          /\ call.ret = Len(pre.list)
          /\ call.ret = Cardinality(DOMAIN pre.map)
          /\ call.ret \in 0..capacity_
          /\ items_list_ = pre.list
          /\ items_map_ = pre.map
    /\ call.op = "new" =>
          /\ LRUCache_size(items_list_, items_map_).ret = 0
          /\ DOMAIN items_map_ = {}

\* size() was called on a full cache that has evicted before
SizeIsResidentCountWitness ==
    /\ call.op = "size"
    /\ call.ret = capacity_
    /\ capacity_ >= 2
    /\ evicted # {}

\* C16 (exactly one eviction per overflowing insert): put of a non-resident
\* key removes exactly one key when size = capacity before the call (and the
\* size stays equal to capacity) and removes no key when size < capacity (and
\* the size grows by exactly 1); no put removes two or more keys.
OneEvictionPerOverflow ==
    call.op = "put" =>
       LET goneMap  == DOMAIN pre.map \ Resident
           goneList == ListKeys(pre.list) \ ListKeys(items_list_)
       IN  /\ Cardinality(goneMap) <= 1
           /\ Cardinality(goneList) <= 1
           /\ call.key \notin DOMAIN pre.map =>
                 IF Len(pre.list) = capacity_
                 THEN /\ Cardinality(goneMap) = 1
                      /\ goneList = goneMap
                      /\ Len(items_list_) = capacity_
                      /\ Cardinality(Resident) = capacity_
                 ELSE /\ Len(pre.list) < capacity_
                      /\ goneMap = {}
                      /\ goneList = {}
                      /\ Len(items_list_) = Len(pre.list) + 1
                      /\ Cardinality(Resident) = Cardinality(DOMAIN pre.map) + 1

\* an overflowing put into a cache of two entries removed one of them
OneEvictionPerOverflowWitness ==
    /\ call.op = "put"
    /\ call.key \notin DOMAIN pre.map
    /\ Len(pre.list) = capacity_
    /\ capacity_ >= 2
    /\ Cardinality(DOMAIN pre.map \ Resident) = 1
    /\ Cardinality(DOMAIN pre.map \cap Resident) >= 1
    /\ pre.touch[call.key] = "none"

\* C17 (keys leave the cache only by eviction): a resident key stops being
\* resident only during a put of a different, non-resident key at full
\* capacity; get (hit or miss), exists, size and put on an existing key
\* remove no key, and no call changes the value of a key other than the one
\* it puts.
OnlyEvictionRemoves ==
    /\ \A k \in DOMAIN pre.map \ Resident :
          /\ call.op = "put"
          /\ call.key # k
          /\ call.key \notin DOMAIN pre.map
          /\ Len(pre.list) = capacity_
    /\ ListKeys(pre.list) \ ListKeys(items_list_) = DOMAIN pre.map \ Resident
    /\ \A k \in ListKeys(pre.list) \cap ListKeys(items_list_) :
          (call.op = "put" /\ call.key = k)
          \/ ValueOf(items_list_, k) = ValueOf(pre.list, k)

\* put on an existing key of a full cache, next to a key with another value
OnlyEvictionRemovesWitness ==
    /\ call.op = "put"
    /\ call.key \in DOMAIN pre.map
    /\ Len(pre.list) = capacity_
    /\ capacity_ >= 2
    /\ \E k \in Resident \ {call.key} :
          ValueOf(items_list_, k) # call.value

\* the keys of a list, front to back, without key k
RECURSIVE KeysWithout(_, _)
KeysWithout(list, k) ==
    IF list = <<>> THEN <<>>
    ELSE IF list[1].first = k THEN KeysWithout(Tail(list), k)
    ELSE <<list[1].first>> \o KeysWithout(Tail(list), k)

\* C18 (relocation keeps the others in place): a hit get(k) or a put on a
\* resident k moves only k to the head; the relative order of all other
\* resident keys is unchanged, and the index entry of every other key still
\* refers to the node that holds that key.
RelocationKeepsOthers ==
    (call.op \in {"get", "put"} /\ call.key \in DOMAIN pre.map)
    => /\ items_list_[1].first = call.key
       /\ KeysWithout(items_list_, call.key) = KeysWithout(pre.list, call.key)
       /\ items_map_ = pre.map
       /\ \A j \in DOMAIN pre.map \ {call.key} :
             /\ valid(items_list_, items_map_[j])
             /\ items_list_[deref(items_list_, items_map_[j])].first = j
             /\ items_list_[deref(items_list_, items_map_[j])].second
                  = ValueOf(pre.list, j)

\* the tail of three residents was relocated past the two others
RelocationKeepsOthersWitness ==
    /\ call.op \in {"get", "put"}
    /\ call.key \in DOMAIN pre.map
    /\ Len(pre.list) >= 3
    /\ back(pre.list).first = call.key
    /\ items_list_[1].first = call.key
    /\ Len(KeysWithout(items_list_, call.key)) >= 2

\* C19 (put always succeeds with a valid capacity): for capacity >= 1,
\* whenever put is in its eviction branch the ordering list is non-empty, so
\* the tail entry it reads and removes exists, and the key of that entry is
\* in the index when it is erased.
EvictionTailExists ==
    capacity_ >= 1 =>
       \A t \in Threads :
          /\ pc[t] = "put68" =>
                /\ items_list_ # <<>>
                /\ back(items_list_).first \in DOMAIN items_map_
                /\ items_map_[back(items_list_).first] = back(items_list_).it
          /\ pc[t] = "put69" =>
                /\ items_list_ # <<>>
                /\ lru[t].first = back(items_list_).first
                /\ lru[t].first \in DOMAIN items_map_
          /\ pc[t] = "put70" =>
                /\ items_list_ # <<>>
                /\ lru[t].first = back(items_list_).first
                /\ lru[t].first \notin DOMAIN items_map_

\* put is about to read the tail of a full cache of two entries
EvictionTailExistsWitness ==
    \E t \in Threads :
       /\ pc[t] = "put68"
       /\ capacity_ >= 2
       /\ Len(items_list_) = capacity_
       /\ back(items_list_).first # items_list_[1].first

\* C20 (capacity 0): for a cache constructed with capacity 0 the eviction
\* test is true on every put of a non-resident key, so every such put goes
\* through the eviction statements before it inserts, including the first
\* put on the empty cache.
CapacityZeroEvicts ==
    [][\A t \in Threads :
          capacity_ = 0 =>
             /\ (pc[t] = "put67" /\ pc'[t] # "put67") => pc'[t] = "put68"
             /\ (pc[t] # "put73" /\ pc'[t] = "put73") => pc[t] = "put70"]_vars

\* the first put on the empty cache of capacity 0 is in the eviction branch
CapacityZeroEvictsWitness ==
    \E t \in Threads :
       /\ capacity_ = 0
       /\ pc[t] = "put68"
       /\ items_list_ = <<>>
       /\ items_map_ = <<>>

====
